---- MODULE Spec2Model ----
(***************************************************************************)
(* turnip_music2: group assembly (CompilationInputGroup::new) and the      *)
(* library scanner (scan_library / scan_group).                            *)
(*                                                                         *)
(* Paths are byte strings (sequences of byte values, '/' = 47, '.' = 46).  *)
(* std::path::Path compares, hashes and strips prefixes by components,     *)
(* while as_os_str() compares the raw bytes; both views are modelled.      *)
(***************************************************************************)
EXTENDS Integers, Sequences, FiniteSets, TLC

\* Option<T>: None is the empty sequence, Some(x) the one-element sequence.
None == <<>>
Some(x) == <<x>>
IsSome(o) == o # <<>>
Unwrap(o) == o[1]

(***************************************************************************)
(* Bounds of the model.                                                    *)
(***************************************************************************)
MaxSongs == 3
MaxOverrides == 2
MaxPos == 2

(***************************************************************************)
(* Byte strings.                                                           *)
(***************************************************************************)
\* Ord for [u8] / OsStr: lexicographic over bytes, a strict prefix is Less.
RECURSIVE BytesCmp(_, _)
BytesCmp(x, y) ==
    IF x = <<>> /\ y = <<>> THEN 0
    ELSE IF x = <<>> THEN -1
    ELSE IF y = <<>> THEN 1
    ELSE IF Head(x) < Head(y) THEN -1
    ELSE IF Head(x) > Head(y) THEN 1
    ELSE BytesCmp(Tail(x), Tail(y))

\* The segments of a raw path between '/' bytes (empty segments included),
\* so that joining them with '/' gives the raw path back.
RECURSIVE SplitSegs(_, _)
SplitSegs(raw, cur) ==
    IF raw = <<>> THEN <<cur>>
    ELSE IF Head(raw) = 47 THEN <<cur>> \o SplitSegs(Tail(raw), <<>>)
    ELSE SplitSegs(Tail(raw), Append(cur, Head(raw)))

RECURSIVE JoinSegs(_)
JoinSegs(segs) ==
    IF segs = <<>> THEN <<>>
    ELSE IF Len(segs) = 1 THEN segs[1]
    ELSE segs[1] \o <<47>> \o JoinSegs(Tail(segs))

(***************************************************************************)
(* std::path::Path::components: a leading '/' is RootDir, repeated         *)
(* separators and interior or trailing "." segments are dropped, a         *)
(* leading "." of a relative path is CurDir, ".." is ParentDir.            *)
(***************************************************************************)
IsAbsolute(raw) == raw # <<>> /\ raw[1] = 47

\* Whether segment i of the split raw path is a component at all.
SegIsComponent(segs, i) ==
    /\ segs[i] # <<>>
    /\ (segs[i] = <<46>> => i = 1)

SegComponent(seg) ==
    IF seg = <<46>> THEN [kind |-> "CurDir", str |-> <<>>]
    ELSE IF seg = <<46, 46>> THEN [kind |-> "ParentDir", str |-> <<>>]
    ELSE [kind |-> "Normal", str |-> seg]

RECURSIVE SegComponentsFrom(_, _)
SegComponentsFrom(segs, i) ==
    IF i > Len(segs) THEN <<>>
    ELSE (IF SegIsComponent(segs, i) THEN <<SegComponent(segs[i])>> ELSE <<>>)
         \o SegComponentsFrom(segs, i + 1)

Components(raw) ==
    (IF IsAbsolute(raw) THEN <<[kind |-> "RootDir", str |-> <<>>]>> ELSE <<>>)
    \o SegComponentsFrom(SplitSegs(raw, <<>>), 1)

\* #[derive(PartialOrd, Ord)] on enum Component: variant order, then payload.
KindRank(k) ==
    CASE k = "RootDir" -> 1
      [] k = "CurDir" -> 2
      [] k = "ParentDir" -> 3
      [] k = "Normal" -> 4

ComponentCmp(c, d) ==
    IF KindRank(c.kind) < KindRank(d.kind) THEN -1
    ELSE IF KindRank(c.kind) > KindRank(d.kind) THEN 1
    ELSE BytesCmp(c.str, d.str)

\* Iterator::cmp over the component sequences.
RECURSIVE ComponentsCmp(_, _)
ComponentsCmp(cs, ds) ==
    IF cs = <<>> /\ ds = <<>> THEN 0
    ELSE IF cs = <<>> THEN -1
    ELSE IF ds = <<>> THEN 1
    ELSE IF ComponentCmp(Head(cs), Head(ds)) # 0 THEN ComponentCmp(Head(cs), Head(ds))
    ELSE ComponentsCmp(Tail(cs), Tail(ds))

\* The relative paths of the model's inputs ("b", "d/a", "d.a", "d//a"), with
\* their components computed once; PathComponents is Components, looked up
\* for these and computed for any other path.
KnownRelPaths == { <<98>>, <<100, 47, 97>>, <<100, 46, 97>>, <<100, 47, 47, 97>> }

KnownComponents == [raw \in KnownRelPaths |-> Components(raw)]

PathComponents(raw) ==
    IF raw \in KnownRelPaths THEN KnownComponents[raw] ELSE Components(raw)

\* Mutant: the paths compared as whole byte strings.
PathCmpWholeString(p, q) == BytesCmp(p, q)

\* Ord for PathBuf.
PathCmp(p, q) == ComponentsCmp(PathComponents(p), PathComponents(q))

\* Eq (and Hash) for PathBuf: by components.
PathEq(p, q) == PathComponents(p) = PathComponents(q)

\* p.as_os_str() == q.as_os_str(): the raw bytes.
OsStrEq(p, q) == p = q


(***************************************************************************)
(* Path::strip_prefix: succeeds iff the components of base are a prefix of *)
(* the components of p; the result is the raw remainder of p, with leading *)
(* and trailing separators trimmed (Components::as_path).                  *)
(***************************************************************************)
\* Index of the segment that holds the first component after n body components.
RECURSIVE DropComponents(_, _, _)
DropComponents(segs, i, n) ==
    IF i > Len(segs) THEN i
    ELSE IF ~SegIsComponent(segs, i) THEN DropComponents(segs, i + 1, n)
    ELSE IF n = 0 THEN i
    ELSE DropComponents(segs, i + 1, n - 1)

RECURSIVE TrimRight(_)
TrimRight(segs) ==
    IF segs = <<>> THEN <<>>
    ELSE IF segs[Len(segs)] = <<>> \/ (segs[Len(segs)] = <<46>> /\ Len(segs) > 1)
         THEN TrimRight(SubSeq(segs, 1, Len(segs) - 1))
    ELSE segs

\* The segments after the root without the trailing empty and "." ones.
RECURSIVE TrimBody(_)
TrimBody(segs) ==
    IF segs = <<>> THEN <<>>
    ELSE IF segs[Len(segs)] = <<>> \/ segs[Len(segs)] = <<46>>
         THEN TrimBody(SubSeq(segs, 1, Len(segs) - 1))
    ELSE segs

\* Components::as_path() with nothing consumed from the front: the path
\* without its trailing separators and trailing "." segments; the root and a
\* leading "." stay.
TrimTrailing(p) ==
    LET segs == SplitSegs(p, <<>>)
    IN  IF IsAbsolute(p)
        THEN <<47>> \o JoinSegs(TrimBody(Tail(segs)))
        ELSE JoinSegs(TrimRight(segs))

IsPrefixSeq(a, b) == Len(a) <= Len(b) /\ SubSeq(b, 1, Len(a)) = a

\* [ok |-> FALSE] is Err(StripPrefixError); [ok |-> TRUE, val |-> raw] is Ok(raw).
StripPrefix(p, base) ==
    LET cp == Components(p)
        cb == Components(base)
        segs == SplitSegs(p, <<>>)
        nb == Len(cb) - (IF IsAbsolute(p) /\ cb # <<>> THEN 1 ELSE 0)
        j == DropComponents(segs, 1, nb)
    IN  IF ~IsPrefixSeq(cb, cp) THEN [ok |-> FALSE, val |-> <<>>]
        ELSE IF cb = <<>> THEN [ok |-> TRUE, val |-> TrimTrailing(p)]
        ELSE [ok |-> TRUE, val |-> JoinSegs(TrimRight(SubSeq(segs, j, Len(segs))))]

(***************************************************************************)
(* CompilationInputGroup::new, data_model.rs 240-335, piece by piece.      *)
(***************************************************************************)
\* 251-258: every scanned path made relative to `path`; .expect panics on Err.
StripAll(path, non_rel_song_paths) ==
    [i \in 1..Len(non_rel_song_paths) |-> StripPrefix(non_rel_song_paths[i], path)]

\* slice::sort with Ord for PathBuf: stable, ascending.
RECURSIVE InsertSorted(_, _)
InsertSorted(sorted, x) ==
    IF sorted = <<>> THEN <<x>>
    ELSE IF PathCmp(Head(sorted), x) <= 0
         THEN <<Head(sorted)>> \o InsertSorted(Tail(sorted), x)
    ELSE <<x>> \o sorted

\* The paths left in the order they came in.
SortPathsKeepOrder(paths) == paths

RECURSIVE SortPaths(_)
SortPaths(seq) ==
    IF seq = <<>> THEN <<>>
    ELSE InsertSorted(SortPaths(SubSeq(seq, 1, Len(seq) - 1)), seq[Len(seq)])

\* 266-272: the record a scanned song starts with.
NewSong(p) ==
    [file |-> p, origin_mbid |-> None, override_metadata |-> None,
     derived_metadata_src |-> None, cached_metadata |-> None]

\* HashMap<PathBuf, _>: a set of entries, at most one per key up to PathEq.
MapContains(m, k) == \E e \in m : PathEq(e.key, k)

MapGet(m, k) == (CHOOSE e \in m : PathEq(e.key, k)).val

\* HashMap::insert: an equal key keeps the old key and takes the new value.
MapInsert(m, k, v) ==
    IF MapContains(m, k)
    THEN {IF PathEq(e.key, k) THEN [e EXCEPT !.val = v] ELSE e : e \in m}
    ELSE m \cup {[key |-> k, val |-> v]}

MapRemove(m, k) == {e \in m : ~PathEq(e.key, k)}

\* 262-274: one entry per relative path.
RECURSIVE BuildMapping(_)
BuildMapping(rel) ==
    IF rel = <<>> THEN {}
    ELSE MapInsert(BuildMapping(SubSeq(rel, 1, Len(rel) - 1)),
                   rel[Len(rel)], NewSong(rel[Len(rel)]))

\* 276-278
HasDuplicates(mapping, rel) == Cardinality(mapping) # Len(rel)


\* Mutant: the slice rotated the wrong way.
RotateLeft1Wrong(sl) ==
    IF sl = <<>> THEN sl ELSE <<sl[Len(sl)]>> \o SubSeq(sl, 1, Len(sl) - 1)

\* slice::rotate_left(1) and slice::rotate_right(1).
RotateLeft1(sl) == IF sl = <<>> THEN sl ELSE Tail(sl) \o <<Head(sl)>>

RotateRight1(sl) ==
    IF sl = <<>> THEN sl ELSE <<sl[Len(sl)]>> \o SubSeq(sl, 1, Len(sl) - 1)

\* v with the 0-based inclusive range lo..=hi replaced by f of that slice.
RotateRangeLeft(v, lo, hi) ==
    SubSeq(v, 1, lo) \o RotateLeft1(SubSeq(v, lo + 1, hi + 1)) \o SubSeq(v, hi + 2, Len(v))

\* Mutant: the moved song written over its neighbour instead of shifting it.
RotateRangeRightOverwrite(v, lo, hi) ==
    SubSeq(v, 1, lo) \o <<v[hi + 1]>> \o SubSeq(v, lo + 2, hi) \o SubSeq(v, hi + 2, Len(v))

RotateRangeRight(v, lo, hi) ==
    SubSeq(v, 1, lo) \o RotateRight1(SubSeq(v, lo + 1, hi + 1)) \o SubSeq(v, hi + 2, Len(v))

\* 289: Iterator::position with the as_os_str comparison; 0-based, first match.
PositionOf(rel, path) ==
    IF \E i \in 1..Len(rel) : OsStrEq(rel[i], path)
    THEN Some((CHOOSE i \in 1..Len(rel) :
                 /\ OsStrEq(rel[i], path)
                 /\ \A j \in 1..(i - 1) : ~OsStrEq(rel[j], path)) - 1)
    ELSE None

\* 282-283: PathBuf::new() then push of the record's string.
OverridePath(r) == r.file_rel_path

\* Mutant: the song swapped with the one at the target index.
RepositionSwap(rel, r) ==
    IF ~IsSome(r.override_position) THEN [ok |-> TRUE, val |-> rel, msg |-> ""]
    ELSE LET found == PositionOf(rel, r.file_rel_path)
             op == Unwrap(r.override_position)
         IN  IF ~IsSome(found) \/ op >= Len(rel)
             THEN [ok |-> FALSE, val |-> rel, msg |-> "panic"]
             ELSE [ok |-> TRUE, msg |-> "",
                   val |-> [i \in 1..Len(rel) |->
                              IF i = op + 1 THEN rel[Unwrap(found) + 1]
                              ELSE IF i = Unwrap(found) + 1 THEN rel[op + 1]
                              ELSE rel[i]]]

\* Mutant: a position past the end taken as the last index.
RepositionClamped(rel, r) ==
    IF ~IsSome(r.override_position) THEN [ok |-> TRUE, val |-> rel, msg |-> ""]
    ELSE LET found == PositionOf(rel, r.file_rel_path)
             asked == Unwrap(r.override_position)
             op == IF asked >= Len(rel) THEN Len(rel) - 1 ELSE asked
         IN  IF ~IsSome(found)
             THEN [ok |-> FALSE, val |-> rel, msg |-> "panic"]
             ELSE IF Unwrap(found) < op
             THEN [ok |-> TRUE, msg |-> "", val |-> RotateRangeLeft(rel, Unwrap(found), op)]
             ELSE IF Unwrap(found) > op
             THEN [ok |-> TRUE, msg |-> "", val |-> RotateRangeRight(rel, op, Unwrap(found))]
             ELSE [ok |-> TRUE, val |-> rel, msg |-> ""]

\* 287-298: the reordering of one override record.  ok = FALSE is a panic.
Reposition(rel, r) ==
    IF ~IsSome(r.override_position) THEN [ok |-> TRUE, val |-> rel, msg |-> ""]
    ELSE LET override_pos == Unwrap(r.override_position)
             found == PositionOf(rel, OverridePath(r))
         IN  IF ~IsSome(found)
             THEN [ok |-> FALSE, val |-> rel,
                   msg |-> "override for a file that isn't in the compilation"]
             ELSE LET existing_pos == Unwrap(found)
                  IN  IF existing_pos < override_pos
                      THEN IF override_pos >= Len(rel)
                           THEN [ok |-> FALSE, val |-> rel,
                                 msg |-> "range end index out of range for slice"]
                           ELSE [ok |-> TRUE, msg |-> "",
                                 val |-> RotateRangeLeft(rel, existing_pos, override_pos)]
                      ELSE IF existing_pos > override_pos
                      THEN [ok |-> TRUE, msg |-> "",
                            val |-> RotateRangeRight(rel, override_pos, existing_pos)]
                      ELSE [ok |-> TRUE, val |-> rel, msg |-> ""]

\* 310-315: the fields of one override record merged into the song's record.
MergeSong(song, r) ==
    [song EXCEPT
        !.origin_mbid = IF IsSome(r.origin_mbid) THEN r.origin_mbid ELSE @,
        !.override_metadata = IF IsSome(r.override_metadata) THEN r.override_metadata ELSE @]

\* Mutant: the record's fields merged into every song of the mapping.
MergeOverrideEverySong(mapping, r) ==
    IF ~MapContains(mapping, r.file_rel_path)
    THEN [ok |-> FALSE, val |-> mapping, msg |-> "referred to song not present"]
    ELSE [ok |-> TRUE, msg |-> "",
          val |-> {[e EXCEPT !.val = MergeSong(e.val, r)] : e \in mapping}]

\* 300-317: mapping.get_mut(&path), panic when absent.
MergeOverride(mapping, r) ==
    IF ~MapContains(mapping, OverridePath(r))
    THEN [ok |-> FALSE, val |-> mapping, msg |-> "referred to song not present"]
    ELSE [ok |-> TRUE, msg |-> "",
          val |-> MapInsert(mapping, OverridePath(r),
                            MergeSong(MapGet(mapping, OverridePath(r)), r))]

\* 325-332: the songs pulled out of the mapping in the final order.
RECURSIVE CollectSongs(_, _)
CollectSongs(rel, mapping) ==
    IF rel = <<>> THEN [ok |-> TRUE, val |-> <<>>]
    ELSE IF ~MapContains(mapping, Head(rel)) THEN [ok |-> FALSE, val |-> <<>>]
    ELSE LET rest == CollectSongs(Tail(rel), MapRemove(mapping, Head(rel)))
         IN  [ok |-> rest.ok, val |-> <<MapGet(mapping, Head(rel))>> \o rest.val]

\* 281-318: one iteration of the loop on the pair (order, mapping).
ApplyRecord(st, r) ==
    IF ~st.ok THEN st
    ELSE LET moved == Reposition(st.rel, r)
         IN  IF ~moved.ok
             THEN [ok |-> FALSE, rel |-> st.rel, mapping |-> st.mapping, msg |-> moved.msg]
             ELSE LET merged == MergeOverride(st.mapping, r)
                  IN  IF ~merged.ok
                      THEN [ok |-> FALSE, rel |-> moved.val, mapping |-> st.mapping,
                            msg |-> merged.msg]
                      ELSE [ok |-> TRUE, rel |-> moved.val, mapping |-> merged.val,
                            msg |-> ""]

\* 281-318: the whole loop `for s in songs`.
RECURSIVE ApplyRecords(_, _)
ApplyRecords(st, list) ==
    IF list = <<>> THEN st ELSE ApplyRecords(ApplyRecord(st, Head(list)), Tail(list))

\* 240-335: CompilationInputGroup::new as a function of its arguments; the
\* result is the group's song_files or the panic that ended the call.
New(path, list, scanned) ==
    LET stripped == StripAll(path, scanned)
    IN  IF \E i \in 1..Len(stripped) : ~stripped[i].ok
        THEN [kind |-> "Panic", song_files |-> <<>>,
              msg |-> "non_rel_song_paths had a path that wasn't prefixed with the parent"]
        ELSE LET rel0 == SortPaths([i \in 1..Len(stripped) |-> stripped[i].val])
                 map0 == BuildMapping(rel0)
             IN  IF HasDuplicates(map0, rel0)
                 THEN [kind |-> "Panic", song_files |-> <<>>,
                       msg |-> "rel_song_paths had duplicates"]
                 ELSE LET st == ApplyRecords([ok |-> TRUE, rel |-> rel0,
                                              mapping |-> map0, msg |-> ""], list)
                          out == CollectSongs(st.rel, st.mapping)
                      IN  IF ~st.ok
                          THEN [kind |-> "Panic", song_files |-> <<>>, msg |-> st.msg]
                          ELSE IF ~out.ok
                          THEN [kind |-> "Panic", song_files |-> <<>>,
                                msg |-> "Removing from a list that was populated with mapping"]
                          ELSE [kind |-> "Group", song_files |-> out.val, msg |-> ""]

(***************************************************************************)
(* The inputs the model draws from.                                        *)
(***************************************************************************)
\* "/r"
GroupRoot == <<47, 114>>

\* "/r/b", "/r/d/a", "/r/d.a" and, outside the root, "/x/a"
ScanUniverse ==
    { <<47, 114, 47, 98>>, <<47, 114, 47, 100, 47, 97>>,
      <<47, 114, 47, 100, 46, 97>>, <<47, 120, 47, 97>> }

\* "b", "d/a", "d.a" and "d//a", a second spelling of "d/a"
OverridePaths == { <<98>>, <<100, 47, 97>>, <<100, 46, 97>>, <<100, 47, 47, 97>> }

MetadataOverrides ==
    { [song_title |-> Some("t1"), song_artists |-> None],
      [song_title |-> None, song_artists |-> Some(<<"ar1">>)] }

OverrideRecords ==
    [ file_rel_path : OverridePaths,
      origin_mbid : {None, Some("mb1")},
      override_metadata : {None} \cup {Some(m) : m \in MetadataOverrides},
      override_position : {None} \cup {Some(i) : i \in 0..MaxPos} ]

RECURSIVE SeqsUpTo(_, _)
SeqsUpTo(S, n) ==
    IF n = 0 THEN {<<>>}
    ELSE LET shorter == SeqsUpTo(S, n - 1)
         IN  shorter \cup {Append(q, x) : q \in shorter, x \in S}

(***************************************************************************)
(* The scanner, scanner.rs: paths, names and extensions.                   *)
(***************************************************************************)
\* GROUP_FILE_NAME = "music.tm2.toml"
GROUP_FILE_NAME == <<109, 117, 115, 105, 99, 46, 116, 109, 50, 46, 116, 111, 109, 108>>

\* NATIVE_MUSIC_EXTS = ["mp3", "ogg", "flac", "wav", "aiff", "m4a"]
NATIVE_MUSIC_EXTS ==
    << <<109, 112, 51>>, <<111, 103, 103>>, <<102, 108, 97, 99>>,
       <<119, 97, 118>>, <<97, 105, 102, 102>>, <<109, 52, 97>> >>

\* DirEntry::path(): the directory joined with the entry's name.
JoinPath(dir, name) ==
    IF name # <<>> /\ name[1] = 47 THEN name
    ELSE IF dir = <<>> \/ dir[Len(dir)] = 47 THEN dir \o name
    ELSE dir \o <<47>> \o name

\* Path::file_name(): the last component when it is a normal one.
FileName(p) ==
    LET cs == Components(p)
    IN  IF cs # <<>> /\ cs[Len(cs)].kind = "Normal" THEN Some(cs[Len(cs)].str) ELSE None

\* 0 when the name holds no '.', else the index of its last '.'.
LastDot(name) ==
    IF \E i \in 1..Len(name) : name[i] = 46
    THEN CHOOSE i \in 1..Len(name) :
            name[i] = 46 /\ \A j \in (i + 1)..Len(name) : name[j] # 46
    ELSE 0

\* Path::extension(): what follows the last '.' of the file name; None when
\* there is no '.', or when the only one is the name's first byte.
Extension(p) ==
    LET fname == FileName(p)
    IN  IF ~IsSome(fname) THEN None
        ELSE LET name == Unwrap(fname)
                 dot == LastDot(name)
             IN  IF dot <= 1 THEN None
                 ELSE Some(SubSeq(name, dot + 1, Len(name)))

\* A scan_exts that adds the filter's extensions to the default ones.
ScanExtsWithDefaults(group) ==
    {NATIVE_MUSIC_EXTS[i] : i \in 1..Len(NATIVE_MUSIC_EXTS)}
    \cup (IF IsSome(group.scan_filter)
          THEN {Unwrap(group.scan_filter)[i] : i \in 1..Len(Unwrap(group.scan_filter))}
          ELSE {})

\* GroupFile::scan_filter() and scanner.rs 61-64: the extensions to keep.
ScanExts(group) ==
    IF IsSome(group.scan_filter)
    THEN {Unwrap(group.scan_filter)[i] : i \in 1..Len(Unwrap(group.scan_filter))}
    ELSE {NATIVE_MUSIC_EXTS[i] : i \in 1..Len(NATIVE_MUSIC_EXTS)}

\* scanner.rs 67-71 and 82-86: a file is kept iff it has an extension in the set.
IsSelected(p, scan_exts) == IsSome(Extension(p)) /\ Unwrap(Extension(p)) \in scan_exts

SelectFiles(files, scan_exts) == SelectSeq(files, LAMBDA f : IsSelected(f, scan_exts))

\* The orders in which read_dir may yield the members of a set.
Perms(S) ==
    {q \in [1..Cardinality(S) -> S] : \A i, j \in 1..Cardinality(S) : i # j => q[i] # q[j]}

(***************************************************************************)
(* The directory trees the scanner is run on: the library root "/m" with   *)
(* the directories "/m/x", "/m/x/s" and "/m/y".  A tree says, for each     *)
(* directory, whether it holds a group file (and whether that parses, and  *)
(* what it declares), which other files it holds, and whether read_dir     *)
(* fails on it.                                                            *)
(***************************************************************************)
MaxUnreadable == 1

DirM == <<47, 109>>
DirX == <<47, 109, 47, 120>>
DirXS == <<47, 109, 47, 120, 47, 115>>
DirY == <<47, 109, 47, 121>>
Dirs == {DirM, DirX, DirXS, DirY}

SubDirs(d) ==
    IF d = DirM THEN {DirX, DirY}
    ELSE IF d = DirX THEN {DirXS}
    ELSE {}

\* "t.mp3", "n.txt" and ".mp3" (a name with no extension)
NameTMp3 == <<116, 46, 109, 112, 51>>
NameNTxt == <<110, 46, 116, 120, 116>>
NameDotMp3 == <<46, 109, 112, 51>>

NoGroupFile == [state |-> "none", scan_filter |-> None, songs |-> <<>>]
BadGroupFile == [state |-> "bad", scan_filter |-> None, songs |-> <<>>]
\* type = "Compilation", no scan_filter, no songs
PlainGroupFile == [state |-> "ok", scan_filter |-> None, songs |-> <<>>]
\* type = "Compilation", scan_filter.ext_filters = ["txt"], no songs
TxtGroupFile == [state |-> "ok", scan_filter |-> Some(<< <<116, 120, 116>> >>), songs |-> <<>>]

GroupFileChoices(d) ==
    IF d = DirX THEN {NoGroupFile, BadGroupFile, PlainGroupFile, TxtGroupFile}
    ELSE IF d = DirY THEN {NoGroupFile, BadGroupFile, PlainGroupFile}
    ELSE {NoGroupFile, PlainGroupFile}

FileChoices(d) ==
    IF d = DirX THEN SUBSET {NameTMp3, NameNTxt, NameDotMp3} ELSE SUBSET {NameTMp3}

Trees ==
    { [gf |-> g, files |-> f, unreadable |-> u] :
        g \in {h \in [Dirs -> {NoGroupFile, BadGroupFile, PlainGroupFile, TxtGroupFile}] :
                  \A d \in Dirs : h[d] \in GroupFileChoices(d)},
        f \in {h \in [Dirs -> SUBSET {NameTMp3, NameNTxt, NameDotMp3}] :
                  \A d \in Dirs : h[d] \in FileChoices(d)},
        u \in {v \in SUBSET Dirs : Cardinality(v) <= MaxUnreadable} }

(***************************************************************************)
(* NativeMetadataFormat::parse_from_file, native_metadata.rs 48-184.       *)
(* A file is what the tag libraries find in it: nothing they can read, or  *)
(* the tag of one format.  Text that the code parses is kept as bytes.     *)
(***************************************************************************)
\* u8::to_ascii_lowercase
ToAsciiLower(b) == IF b >= 65 /\ b <= 90 THEN b + 32 ELSE b

\* OsStr::eq_ignore_ascii_case
EqIgnoreAsciiCase(a, b) ==
    /\ Len(a) = Len(b)
    /\ \A i \in 1..Len(a) : ToAsciiLower(a[i]) = ToAsciiLower(b[i])

ExtMp3 == <<109, 112, 51>>
ExtWav == <<119, 97, 118>>
ExtAiff == <<97, 105, 102, 102>>
ExtFlac == <<102, 108, 97, 99>>
ExtM4a == <<109, 52, 97>>

\* 51-65: the format chosen from the extension alone.
FormatOf(path) ==
    LET ext == Extension(path)
    IN  IF ~IsSome(ext) THEN "None"
        ELSE IF \/ EqIgnoreAsciiCase(Unwrap(ext), ExtMp3)
                \/ EqIgnoreAsciiCase(Unwrap(ext), ExtWav)
                \/ EqIgnoreAsciiCase(Unwrap(ext), ExtAiff) THEN "ID3"
        ELSE IF EqIgnoreAsciiCase(Unwrap(ext), ExtFlac) THEN "FLAC"
        ELSE IF EqIgnoreAsciiCase(Unwrap(ext), ExtM4a) THEN "M4A"
        ELSE "None"

\* 31-45: NativeMetadata::default()
DefaultMetadata ==
    [fmt |-> "None", name |-> None, album |-> None, album_artists |-> <<>>,
     artist |-> <<>>, num_discs |-> None, disc_idx |-> None, num_tracks |-> None,
     track_idx |-> None]

MetaOk(md) == [kind |-> "Ok", md |-> md, msg |-> ""]
MetaErr(msg) == [kind |-> "Err", md |-> DefaultMetadata, msg |-> msg]

\* An ASCII digit, the only digits str::parse accepts.
IsDigit(b) == b >= 48 /\ b <= 57

\* The first code point of each run of ten decimal digits (general category
\* Nd, Unicode 16): the regex crate's \d matches any of them, not only 0-9.
DecimalDigitRuns ==
    {
     48, 1632, 1776, 1984, 2406, 2534, 2662, 2790, 2918, 3046,
     3174, 3302, 3430, 3558, 3664, 3792, 3872, 4160, 4240, 6112,
     6160, 6470, 6608, 6784, 6800, 6992, 7088, 7232, 7248, 42528,
     43216, 43264, 43472, 43504, 43600, 44016, 65296, 66720, 68912, 68928,
     69734, 69872, 69942, 70096, 70384, 70736, 70864, 71248, 71360, 71376,
     71386, 71472, 71904, 72016, 72688, 72784, 73040, 73120, 73552, 90416,
     92768, 92864, 93008, 93552, 118000, 120782, 120792, 120802, 120812, 120822,
     123200, 123632, 124144, 124401, 125264, 130032 }

IsDecimalDigit(c) == \E z \in DecimalDigitRuns : c >= z /\ c <= z + 9

\* The length in bytes of the UTF-8 character that begins with byte b.
CharLen(b) == IF b < 192 THEN 1 ELSE IF b < 224 THEN 2 ELSE IF b < 240 THEN 3 ELSE 4

\* The code point of the UTF-8 character that begins at index i.
CodePointAt(str, i) ==
    LET n == CharLen(str[i])
    IN  IF n = 1 THEN str[i]
        ELSE IF n = 2 THEN (str[i] - 192) * 64 + (str[i + 1] - 128)
        ELSE IF n = 3 THEN (str[i] - 224) * 4096 + (str[i + 1] - 128) * 64 + (str[i + 2] - 128)
        ELSE (str[i] - 240) * 262144 + (str[i + 1] - 128) * 4096
             + (str[i + 2] - 128) * 64 + (str[i + 3] - 128)

\* A character that \d matches begins at index i.
IsDigitAt(str, i) ==
    /\ i >= 1 /\ i <= Len(str)
    /\ ~(str[i] >= 128 /\ str[i] < 192)
    /\ i + CharLen(str[i]) - 1 <= Len(str)
    /\ IsDecimalDigit(CodePointAt(str, i))

\* The last byte of the run of \d characters that starts at index i (i - 1
\* when there is none).
RECURSIVE DigitsEnd(_, _)
DigitsEnd(str, i) ==
    IF IsDigitAt(str, i) THEN DigitsEnd(str, i + CharLen(str[i])) ELSE i - 1

\* 147-150: the leftmost match of (\d+)(/(\d+))? in str; g2 is the second
\* group, which begins with the '/'.
Captures(str) ==
    IF ~\E i \in 1..Len(str) : IsDigitAt(str, i)
    THEN [matched |-> FALSE, g1 |-> <<>>, g2 |-> None]
    ELSE LET start == CHOOSE i \in 1..Len(str) :
                          IsDigitAt(str, i) /\ \A j \in 1..(i - 1) : ~IsDigitAt(str, j)
             e1 == DigitsEnd(str, start)
             e2 == DigitsEnd(str, e1 + 2)
         IN  [matched |-> TRUE,
              g1 |-> SubSeq(str, start, e1),
              g2 |-> IF e1 + 1 <= Len(str) /\ str[e1 + 1] = 47 /\ e2 >= e1 + 2
                     THEN Some(SubSeq(str, e1 + 1, e2)) ELSE None]

RECURSIVE DecimalValue(_)
DecimalValue(ds) ==
    IF ds = <<>> THEN 0
    ELSE 10 * DecimalValue(SubSeq(ds, 1, Len(ds) - 1)) + (ds[Len(ds)] - 48)

\* "18446744073709551615", u64::MAX
U64MaxText ==
    <<49, 56, 52, 52, 54, 55, 52, 52, 48, 55, 51, 55, 48, 57, 53, 53, 49, 54, 49, 53>>

RECURSIVE StripLeadingZeros(_)
StripLeadingZeros(ds) ==
    IF ds # <<>> /\ ds[1] = 48 THEN StripLeadingZeros(Tail(ds)) ELSE ds

\* The number written by the digits ds is above u64::MAX.
OverflowsU64(ds) ==
    LET sig == StripLeadingZeros(ds)
    IN  \/ Len(sig) > Len(U64MaxText)
        \/ Len(sig) = Len(U64MaxText) /\ BytesCmp(sig, U64MaxText) > 0

\* str::parse::<u64>(): an optional '+', then one or more ASCII digits that
\* write a number no larger than u64::MAX.  The text is read left to right:
\* an overflow met before the first invalid byte is the error reported.
ParseU64(str) ==
    LET body == IF str # <<>> /\ str[1] = 43 THEN Tail(str) ELSE str
        bad == {i \in 1..Len(body) : ~IsDigit(body[i])}
        k == IF bad = {} THEN Len(body) + 1
             ELSE CHOOSE i \in bad : \A j \in bad : i <= j
    IN  IF str = <<>>
        THEN [ok |-> FALSE, val |-> 0, msg |-> "cannot parse integer from empty string"]
        ELSE IF body = <<>>
        THEN [ok |-> FALSE, val |-> 0, msg |-> "invalid digit found in string"]
        ELSE IF OverflowsU64(SubSeq(body, 1, k - 1))
        THEN [ok |-> FALSE, val |-> 0, msg |-> "number too large to fit in target type"]
        ELSE IF k <= Len(body)
        THEN [ok |-> FALSE, val |-> 0, msg |-> "invalid digit found in string"]
        ELSE [ok |-> TRUE, val |-> DecimalValue(body), msg |-> ""]

\* Iterator::last()
LastOf(q) == IF q = <<>> THEN None ELSE Some(q[Len(q)])

\* 69-88
ParseId3(file) ==
    IF file.kind # "id3" THEN MetaErr("id3 read failed")
    ELSE MetaOk([fmt |-> "ID3", name |-> file.title, album |-> file.album,
                 album_artists |-> IF IsSome(file.album_artist)
                                   THEN <<Unwrap(file.album_artist)>> ELSE <<>>,
                 artist |-> IF IsSome(file.artists) THEN Unwrap(file.artists) ELSE <<>>,
                 num_discs |-> file.total_discs, disc_idx |-> file.disc,
                 num_tracks |-> file.total_tracks, track_idx |-> file.track])

\* 89-117
ParseM4a(file) ==
    IF file.kind # "m4a" THEN MetaErr("mp4 read failed")
    ELSE MetaOk([fmt |-> "M4A", name |-> file.title, album |-> file.album,
                 album_artists |-> file.album_artists, artist |-> file.artists,
                 num_discs |-> file.disc[2], disc_idx |-> file.disc[1],
                 num_tracks |-> file.track[2], track_idx |-> file.track[1]])

\* 118-182
ParseFlac(file) ==
    IF file.kind # "flac" THEN MetaErr("flac read failed")
    ELSE LET name == LastOf(file.title)
             album == LastOf(file.album)
             artist == LastOf(file.artist)
             track_number_str == IF IsSome(LastOf(file.artist))
                                 THEN Unwrap(LastOf(file.artist)) ELSE <<>>
             cs == Captures(track_number_str)
             first == ParseU64(cs.g1)
             second == ParseU64(IF IsSome(cs.g2) THEN Unwrap(cs.g2) ELSE <<>>)
             md(track_idx, num_tracks) ==
                 [fmt |-> "FLAC", name |-> name, album |-> album, album_artists |-> <<>>,
                  artist |-> artist, num_discs |-> None, disc_idx |-> None,
                  num_tracks |-> track_idx, track_idx |-> num_tracks]
         IN  IF ~cs.matched THEN MetaOk(md(None, None))
             ELSE IF ~first.ok THEN MetaErr(first.msg)
             ELSE IF ~IsSome(cs.g2) THEN MetaOk(md(Some(first.val), None))
             ELSE IF ~second.ok THEN MetaErr(second.msg)
             ELSE MetaOk(md(Some(first.val), Some(second.val)))

\* 48-184
parse_from_file(path, file) ==
    LET fmt == FormatOf(path)
    IN  IF fmt = "None" THEN MetaOk(DefaultMetadata)
        ELSE IF fmt = "ID3" THEN ParseId3(file)
        ELSE IF fmt = "M4A" THEN ParseM4a(file)
        ELSE ParseFlac(file)

(***************************************************************************)
(* The files parse_from_file is run on.                                    *)
(***************************************************************************)
\* "/r/a" followed by ".mp3", ".MP3", ".wav", ".aiff", ".flac", ".Flac",
\* ".m4a", ".ogg", ".txt", and by nothing.
MetaStem == <<47, 114, 47, 97>>
MetaPaths ==
    {MetaStem \o <<46>> \o e : e \in {ExtMp3, <<77, 80, 51>>, ExtWav, ExtAiff, ExtFlac,
                                      <<70, 108, 97, 99>>, ExtM4a, <<111, 103, 103>>,
                                      <<116, 120, 116>>}}
    \cup {MetaStem}

OptText == {None, Some("x")}
\* "ar"
ArtistName == <<97, 114>>
NumberPairs == {<<None, None>>, <<Some(1), None>>, <<Some(1), Some(2)>>}

Id3Tags ==
    [kind : {"id3"}, title : OptText, album : OptText,
     album_artist : {None, Some(ArtistName)},
     artists : {None, Some(<<ArtistName>>)},
     total_discs : {None}, disc : {None, Some(1)},
     total_tracks : {None, Some(2)}, track : {None, Some(1)}]

M4aTags ==
    [kind : {"m4a"}, title : OptText, album : OptText,
     album_artists : {<<>>, <<ArtistName>>}, artists : {<<>>, <<ArtistName>>},
     disc : {<<None, None>>}, track : NumberPairs]

\* The values of the "artist" comment: "ar", "7", "1/2", "a3/4", "5/", "/6",
\* the Arabic-Indic digit three (U+0663) and "99999999999999999999".
VorbisArtists ==
    {ArtistName, <<55>>, <<49, 47, 50>>, <<97, 51, 47, 52>>, <<53, 47>>, <<47, 54>>,
     <<217, 163>>, [i \in 1..20 |-> 57]}

FlacTags ==
    [kind : {"flac"}, title : {<<>>, <<"w", "x">>}, album : {<<>>, <<"x">>},
     artist : {<<>>} \cup {<<a>> : a \in VorbisArtists}
              \cup {<<ArtistName, a>> : a \in VorbisArtists}]

MetaFiles == {[kind |-> "unreadable"]} \cup Id3Tags \cup M4aTags \cup FlacTags

(***************************************************************************)
(* CompilationInputGroup::new as a state machine.  The loop `for s in      *)
(* songs` consumes the override list one record at a time; the records     *)
(* still to come are input not yet read, drawn when the loop reaches them. *)
(***************************************************************************)
VARIABLES
    pc,                  \* "strip", "map", "overrides", "done" or "panic"
    non_rel_song_paths,  \* argument: the scanned paths
    s,                   \* the loop variable: Some(record) once the loop runs
    n_done,              \* how many override records the loop has consumed
    rel_song_paths,      \* local: the ordered relative paths
    mapping,             \* local: relative path -> song record
    song_files,          \* the returned group's song_files
    panic_msg,           \* the panic message when pc = "panic"
    positioned,          \* history: some consumed record carried a position
    songs_log            \* history: the records consumed (kept by SpecLog only)

\* scan_library and scan_group, scanner.rs 13-120.
VARIABLES
    tree,                \* the directory tree scanned
    lib_pc,              \* "walk", "build", "ok", "err" or "panic"; "idle" when not run
    scan_stack,          \* scan_library: directories still to read
    groups,              \* scan_library: (path, group, dirs, files) per group found
    g_idx,               \* which of groups scan_group is working on (1-based)
    g_phase,             \* scan_group: "enter" or "walk"
    g_stack,             \* scan_group: scan_stack
    g_music,             \* scan_group: music_files
    built,               \* the Group values produced so far
    lib_msg              \* the error or panic message

\* parse_from_file, native_metadata.rs 48-184.
VARIABLES
    md_pc,               \* "call" or "returned"; "idle" when not run
    md_path,             \* argument: the path of the file
    md_file,             \* what the tag libraries find in the file
    md_result            \* the Result returned

newVars == <<pc, non_rel_song_paths, s, n_done, rel_song_paths, mapping,
             song_files, panic_msg, positioned, songs_log>>

libVars == <<tree, lib_pc, scan_stack, groups, g_idx, g_phase, g_stack, g_music,
             built, lib_msg>>

metaVars == <<md_pc, md_path, md_file, md_result>>

vars == <<newVars, libVars, metaVars>>

\* parse_from_file not running.
MetaIdle ==
    /\ md_pc = "idle"
    /\ md_path = <<>>
    /\ md_file = [kind |-> "unreadable"]
    /\ md_result = MetaOk(DefaultMetadata)

\* CompilationInputGroup::new not running.
NewIdle ==
    /\ pc = "idle"
    /\ non_rel_song_paths = <<>>
    /\ s = None
    /\ n_done = 0
    /\ rel_song_paths = <<>>
    /\ mapping = {}
    /\ song_files = <<>>
    /\ panic_msg = ""
    /\ positioned = FALSE
    /\ songs_log = <<>>

\* The scanner not running.
LibIdle ==
    /\ tree = [gf |-> [d \in Dirs |-> NoGroupFile], files |-> [d \in Dirs |-> {}],
               unreadable |-> {}]
    /\ lib_pc = "idle"
    /\ scan_stack = <<>>
    /\ groups = <<>>
    /\ g_idx = 1
    /\ g_phase = "enter"
    /\ g_stack = <<>>
    /\ g_music = <<>>
    /\ built = <<>>
    /\ lib_msg = ""

Init ==
    /\ pc = "strip"
    /\ non_rel_song_paths \in SeqsUpTo(ScanUniverse, MaxSongs)
    /\ s = None
    /\ n_done = 0
    /\ rel_song_paths = <<>>
    /\ mapping = {}
    /\ song_files = <<>>
    /\ panic_msg = ""
    /\ positioned = FALSE
    /\ songs_log = <<>>
    /\ LibIdle
    /\ MetaIdle

\* 251-259
StripAndSort ==
    /\ pc = "strip"
    /\ LET stripped == StripAll(GroupRoot, non_rel_song_paths)
       IN  IF \E i \in 1..Len(stripped) : ~stripped[i].ok
           THEN /\ pc' = "panic"
                /\ panic_msg' = "non_rel_song_paths had a path that wasn't prefixed with the parent"
                /\ UNCHANGED rel_song_paths
           ELSE /\ pc' = "map"
                /\ rel_song_paths' = SortPaths([i \in 1..Len(stripped) |-> stripped[i].val])
                /\ UNCHANGED panic_msg
    /\ UNCHANGED <<non_rel_song_paths, s, n_done, mapping, song_files, positioned, songs_log, libVars, metaVars>>

\* 261-278
BuildAndCheckMapping ==
    /\ pc = "map"
    /\ mapping' = BuildMapping(rel_song_paths)
    /\ IF HasDuplicates(mapping', rel_song_paths)
       THEN pc' = "panic" /\ panic_msg' = "rel_song_paths had duplicates"
       ELSE pc' = "overrides" /\ UNCHANGED panic_msg
    /\ UNCHANGED <<non_rel_song_paths, s, n_done, rel_song_paths, song_files, positioned,
                   songs_log, libVars, metaVars>>

\* 281-318: one iteration of `for s in songs` with the record r.
OverrideStep(r) ==
    /\ pc = "overrides"
    /\ n_done < MaxOverrides
    /\ s' = Some(r)
    /\ n_done' = n_done + 1
    /\ positioned' = (positioned \/ IsSome(r.override_position))
    /\ LET moved == Reposition(rel_song_paths, r)
       IN  IF ~moved.ok
           THEN /\ pc' = "panic" /\ panic_msg' = moved.msg
                /\ UNCHANGED <<rel_song_paths, mapping>>
           ELSE LET merged == MergeOverride(mapping, r)
                IN  IF ~merged.ok
                    THEN /\ pc' = "panic" /\ panic_msg' = merged.msg
                         /\ rel_song_paths' = moved.val
                         /\ UNCHANGED mapping
                    ELSE /\ rel_song_paths' = moved.val
                         /\ mapping' = merged.val
                         /\ UNCHANGED <<pc, panic_msg>>
    /\ UNCHANGED <<non_rel_song_paths, song_files, libVars, metaVars>>

ApplyOverride ==
    \E r \in OverrideRecords : OverrideStep(r) /\ UNCHANGED songs_log

\* 320-333: the loop is over; the group is built.
Finish ==
    /\ pc = "overrides"
    /\ LET out == CollectSongs(rel_song_paths, mapping)
       IN  IF out.ok
           THEN pc' = "done" /\ song_files' = out.val /\ UNCHANGED panic_msg
           ELSE /\ pc' = "panic"
                /\ panic_msg' = "Removing from a list that was populated with mapping"
                /\ UNCHANGED song_files
    /\ UNCHANGED <<non_rel_song_paths, s, n_done, rel_song_paths, mapping, positioned,
                   songs_log, libVars, metaVars>>

Next == StripAndSort \/ BuildAndCheckMapping \/ ApplyOverride \/ Finish

Spec == Init /\ [][Next]_vars

(***************************************************************************)
(* The same machine with the consumed override records kept as a history,  *)
(* for the properties that speak of the whole override list.               *)
(***************************************************************************)
ApplyOverrideLogged ==
    \E r \in OverrideRecords : OverrideStep(r) /\ songs_log' = Append(songs_log, r)

NextLog == StripAndSort \/ BuildAndCheckMapping \/ ApplyOverrideLogged \/ Finish

SpecLog == Init /\ [][NextLog]_vars

(***************************************************************************)
(* scanner.rs's scan_library as a state machine: the walk that finds the    *)
(* groups, then scan_group on each group found, in the order found.  The   *)
(* initial state says which scan_library runs: "walk" is scanner.rs's,     *)
(* "gwalk" is LibraryGatherer's, modelled further down.  Group files of    *)
(* type Album are left out: AlbumInputGroup::new is not part of the source.*)
(***************************************************************************)
InitScan ==
    /\ pc = "idle"
    /\ non_rel_song_paths = <<>>
    /\ s = None
    /\ n_done = 0
    /\ rel_song_paths = <<>>
    /\ mapping = {}
    /\ song_files = <<>>
    /\ panic_msg = ""
    /\ positioned = FALSE
    /\ songs_log = <<>>
    /\ tree \in Trees
    /\ lib_pc \in {"walk", "gwalk"}
    /\ scan_stack = <<DirM>>
    /\ groups = <<>>
    /\ g_idx = 1
    /\ g_phase = "enter"
    /\ g_stack = <<>>
    /\ g_music = <<>>
    /\ built = <<>>
    /\ lib_msg = ""
    /\ MetaIdle

\* The paths read_dir yields for the plain files of d other than the group file.
FilePaths(d) == {JoinPath(d, n) : n \in tree.files[d]}

GroupFilePath(d) == JoinPath(d, GROUP_FILE_NAME)

\* A walk that also searches the directories below a group file.
StackAfterGroupDescending(rest, dirs) == rest \o dirs

\* scanner.rs 38-39: the directories of a directory that holds a group file go
\* with the group; the walk's stack does not get them.
StackAfterGroup(rest, dirs) == rest

\* scanner.rs 18-43: one iteration of the walk.
ScanDir ==
    /\ lib_pc = "walk"
    /\ scan_stack # <<>>
    /\ LET dir == scan_stack[Len(scan_stack)]
           rest == SubSeq(scan_stack, 1, Len(scan_stack) - 1)
       IN  IF dir \in tree.unreadable
           THEN /\ lib_pc' = "err" /\ lib_msg' = "read_dir failed"
                /\ UNCHANGED <<scan_stack, groups>>
           ELSE IF tree.gf[dir].state = "bad"
           THEN /\ lib_pc' = "err" /\ lib_msg' = "GroupFile::from_file failed"
                /\ UNCHANGED <<scan_stack, groups>>
           ELSE \E dirs \in Perms(SubDirs(dir)), files \in Perms(FilePaths(dir)) :
                   /\ IF tree.gf[dir].state = "ok"
                      THEN /\ groups' = Append(groups,
                                          [path |-> GroupFilePath(dir), group |-> tree.gf[dir],
                                           dirs |-> dirs, files |-> files])
                           /\ scan_stack' = StackAfterGroup(rest, dirs)
                      ELSE /\ scan_stack' = rest \o dirs
                           /\ UNCHANGED groups
                   /\ UNCHANGED <<lib_pc, lib_msg>>
    /\ UNCHANGED <<tree, g_idx, g_phase, g_stack, g_music, built, newVars, metaVars>>

\* scanner.rs 18 and 46-48: the walk is over, the groups are scanned in turn.
BeginGroups ==
    /\ lib_pc = "walk"
    /\ scan_stack = <<>>
    /\ lib_pc' = "build"
    /\ UNCHANGED <<tree, scan_stack, groups, g_idx, g_phase, g_stack, g_music, built,
                   lib_msg, newVars, metaVars>>

\* scanner.rs 58-72: scan_group entered for the next group.
EnterGroup ==
    /\ lib_pc = "build"
    /\ g_idx <= Len(groups)
    /\ g_phase = "enter"
    /\ g_phase' = "walk"
    /\ g_stack' = groups[g_idx].dirs
    /\ g_music' = SelectFiles(groups[g_idx].files, ScanExts(groups[g_idx].group))
    /\ UNCHANGED <<tree, lib_pc, scan_stack, groups, g_idx, built, lib_msg, newVars, metaVars>>

\* scanner.rs 74-89: one iteration of scan_group's walk below the group.
WalkGroupDir ==
    /\ lib_pc = "build"
    /\ g_phase = "walk"
    /\ g_stack # <<>>
    /\ LET dir == g_stack[Len(g_stack)]
           rest == SubSeq(g_stack, 1, Len(g_stack) - 1)
           groupFile == IF tree.gf[dir].state = "none" THEN {} ELSE {GroupFilePath(dir)}
       IN  IF dir \in tree.unreadable
           THEN /\ lib_pc' = "err" /\ lib_msg' = "read_dir failed"
                /\ UNCHANGED <<g_stack, g_music>>
           ELSE \E dirs \in Perms(SubDirs(dir)),
                   files \in Perms(FilePaths(dir) \cup groupFile) :
                   /\ g_stack' = rest \o dirs
                   /\ g_music' = g_music \o SelectFiles(files, ScanExts(groups[g_idx].group))
                   /\ UNCHANGED <<lib_pc, lib_msg>>
    /\ UNCHANGED <<tree, scan_stack, groups, g_idx, g_phase, built, newVars, metaVars>>

\* scanner.rs 91-119: the group built from what scan_group collected.
AssembleGroup ==
    /\ lib_pc = "build"
    /\ g_phase = "walk"
    /\ g_stack = <<>>
    /\ LET g == groups[g_idx]
           out == New(g.path, g.group.songs, g_music)
       IN  IF out.kind = "Panic"
           THEN /\ lib_pc' = "panic" /\ lib_msg' = out.msg
                /\ UNCHANGED <<g_idx, g_phase, built>>
           ELSE /\ built' = Append(built, [path |-> g.path, song_files |-> out.song_files])
                /\ g_idx' = g_idx + 1
                /\ g_phase' = "enter"
                /\ UNCHANGED <<lib_pc, lib_msg>>
    /\ UNCHANGED <<tree, scan_stack, groups, g_stack, g_music, newVars, metaVars>>

\* scanner.rs 46-49: every group scanned, Ok(groups) returned.
ReturnGroups ==
    /\ lib_pc = "build"
    /\ g_idx > Len(groups)
    /\ lib_pc' = "ok"
    /\ UNCHANGED <<tree, scan_stack, groups, g_idx, g_phase, g_stack, g_music, built,
                   lib_msg, newVars, metaVars>>

(***************************************************************************)
(* LibraryGatherer::scan_library, lib.rs 108-139, and its scan_group,      *)
(* lib.rs 142-227: the same walk, but each group is scanned and built as   *)
(* soon as its group file is found, before the rest of the walk; built is  *)
(* self.compilation_groups, which keeps what was pushed when the call      *)
(* fails.  lib_pc is "gwalk" in the walk and "ggroup" inside scan_group.   *)
(***************************************************************************)
\* lib.rs 112-136, with 150-163 of scan_group when a group file was found.
GatherDir ==
    /\ lib_pc = "gwalk"
    /\ scan_stack # <<>>
    /\ LET dir == scan_stack[Len(scan_stack)]
           rest == SubSeq(scan_stack, 1, Len(scan_stack) - 1)
       IN  IF dir \in tree.unreadable
           THEN /\ lib_pc' = "err" /\ lib_msg' = "read_dir failed"
                /\ UNCHANGED <<scan_stack, groups, g_idx, g_stack, g_music>>
           ELSE IF tree.gf[dir].state = "bad"
           THEN /\ lib_pc' = "err" /\ lib_msg' = "GroupFile::from_file failed"
                /\ UNCHANGED <<scan_stack, groups, g_idx, g_stack, g_music>>
           ELSE \E dirs \in Perms(SubDirs(dir)), files \in Perms(FilePaths(dir)) :
                   IF tree.gf[dir].state = "ok"
                   THEN /\ groups' = Append(groups,
                                       [path |-> GroupFilePath(dir), group |-> tree.gf[dir],
                                        dirs |-> dirs, files |-> files])
                        /\ g_idx' = Len(groups) + 1
                        /\ scan_stack' = StackAfterGroup(rest, dirs)
                        /\ g_stack' = dirs
                        /\ g_music' = SelectFiles(files, ScanExts(tree.gf[dir]))
                        /\ lib_pc' = "ggroup"
                        /\ UNCHANGED lib_msg
                   ELSE /\ scan_stack' = rest \o dirs
                        /\ UNCHANGED <<groups, g_idx, g_stack, g_music, lib_pc, lib_msg>>
    /\ UNCHANGED <<tree, g_phase, built, newVars, metaVars>>

\* lib.rs 165-180: one iteration of scan_group's walk below the group.
GatherWalkGroupDir ==
    /\ lib_pc = "ggroup"
    /\ g_stack # <<>>
    /\ LET dir == g_stack[Len(g_stack)]
           rest == SubSeq(g_stack, 1, Len(g_stack) - 1)
           groupFile == IF tree.gf[dir].state = "none" THEN {} ELSE {GroupFilePath(dir)}
       IN  IF dir \in tree.unreadable
           THEN /\ lib_pc' = "err" /\ lib_msg' = "read_dir failed"
                /\ UNCHANGED <<g_stack, g_music>>
           ELSE \E dirs \in Perms(SubDirs(dir)),
                   files \in Perms(FilePaths(dir) \cup groupFile) :
                   /\ g_stack' = rest \o dirs
                   /\ g_music' = g_music \o SelectFiles(files, ScanExts(groups[g_idx].group))
                   /\ UNCHANGED <<lib_pc, lib_msg>>
    /\ UNCHANGED <<tree, scan_stack, groups, g_idx, g_phase, built, newVars, metaVars>>

\* lib.rs 184-226: the group built and pushed on self.compilation_groups;
\* scan_group returns and the walk goes on.
GatherAssemble ==
    /\ lib_pc = "ggroup"
    /\ g_stack = <<>>
    /\ LET g == groups[g_idx]
           out == New(g.path, g.group.songs, g_music)
       IN  IF out.kind = "Panic"
           THEN /\ lib_pc' = "panic" /\ lib_msg' = out.msg
                /\ UNCHANGED built
           ELSE /\ built' = Append(built, [path |-> g.path, song_files |-> out.song_files])
                /\ lib_pc' = "gwalk"
                /\ UNCHANGED lib_msg
    /\ UNCHANGED <<tree, scan_stack, groups, g_idx, g_phase, g_stack, g_music,
                   newVars, metaVars>>

\* lib.rs 112 and 138: the stack is empty, Ok(()) returned.
GatherReturn ==
    /\ lib_pc = "gwalk"
    /\ scan_stack = <<>>
    /\ lib_pc' = "ok"
    /\ UNCHANGED <<tree, scan_stack, groups, g_idx, g_phase, g_stack, g_music, built,
                   lib_msg, newVars, metaVars>>

\* Either scan_library: scanner.rs's or LibraryGatherer's.
NextScan ==
    \/ ScanDir \/ BeginGroups \/ EnterGroup \/ WalkGroupDir \/ AssembleGroup \/ ReturnGroups
    \/ GatherDir \/ GatherWalkGroupDir \/ GatherAssemble \/ GatherReturn

SpecScan == InitScan /\ [][NextScan]_vars

(***************************************************************************)
(* parse_from_file as a state machine: a call and its return.              *)
(***************************************************************************)
InitMeta ==
    /\ NewIdle
    /\ LibIdle
    /\ md_pc = "call"
    /\ md_path \in MetaPaths
    /\ md_file \in MetaFiles
    /\ md_result = MetaOk(DefaultMetadata)

ParseFromFile ==
    /\ md_pc = "call"
    /\ md_pc' = "returned"
    /\ md_result' = parse_from_file(md_path, md_file)
    /\ UNCHANGED <<md_path, md_file, newVars, libVars>>

NextMeta == ParseFromFile

SpecMeta == InitMeta /\ [][NextMeta]_vars

(***************************************************************************)
(* Vocabulary of the properties.                                           *)
(***************************************************************************)
\* The scanned paths made relative to the root, in scan order.
RelInputs ==
    [i \in 1..Len(non_rel_song_paths) |-> StripPrefix(non_rel_song_paths[i], GroupRoot).val]

AllUnderRoot ==
    \A i \in 1..Len(non_rel_song_paths) : StripPrefix(non_rel_song_paths[i], GroupRoot).ok

\* How the call ended: a group, a panic, or still running.  The function
\* returns Self, so a typed error is not among its outcomes.
Outcome ==
    CASE pc = "done" -> "Group"
      [] pc = "panic" -> "Panic"
      [] OTHER -> "Running"

Files(sf) == [i \in 1..Len(sf) |-> sf[i].file]

\* The record the loop has just consumed, and whether this step consumed one.
Rec == Unwrap(s)
ConsumesRecord == pc = "overrides" /\ n_done' = n_done + 1
Rec1 == Unwrap(s')

\* 0-based index of the first raw occurrence of x in order (x occurs).
IndexOf(order, x) ==
    (CHOOSE i \in 1..Len(order) :
        order[i] = x /\ \A j \in 1..(i - 1) : order[j] # x) - 1

Occurs(order, x) == \E i \in 1..Len(order) : order[i] = x

\* order without its element at 0-based index i, and with x put at index i.
RemoveAt(order, i) == SubSeq(order, 1, i) \o SubSeq(order, i + 2, Len(order))
InsertAt(order, i, x) == SubSeq(order, 1, i) \o <<x>> \o SubSeq(order, i + 1, Len(order))

\* Remove x and re-insert it at index p.
RemoveInsert(order, x, p) == InsertAt(RemoveAt(order, IndexOf(order, x)), p, x)

Min(a, b) == IF a < b THEN a ELSE b
Max(a, b) == IF a > b THEN a ELSE b

\* C1: one override record naming scanned song P with position p, 0 <= p < n,
\* turns the current order into the order with P removed and re-inserted at
\* index p: P ends at p, the others keep their relative order, and the songs
\* outside the range between P's old index and p keep their index.
C1_RelocateIsRemoveInsert ==
    [][ ( /\ ConsumesRecord
          /\ IsSome(Rec1.override_position)
          /\ Occurs(rel_song_paths, Rec1.file_rel_path)
          /\ Unwrap(Rec1.override_position) < Len(rel_song_paths) )
        => LET P == Rec1.file_rel_path
               p == Unwrap(Rec1.override_position)
               e == IndexOf(rel_song_paths, P)
           IN  /\ pc' = "overrides"
               /\ rel_song_paths' = RemoveInsert(rel_song_paths, P, p)
               /\ rel_song_paths'[p + 1] = P
               /\ RemoveAt(rel_song_paths', p) = RemoveAt(rel_song_paths, e)
               /\ \A i \in 0..(Len(rel_song_paths) - 1) :
                     (i < Min(e, p) \/ i > Max(e, p))
                        => rel_song_paths'[i + 1] = rel_song_paths[i + 1]
      ]_vars

\* Witness of C1: scanned order [b, d/a, d.a], the record "d.a -> 0" applied,
\* giving [d.a, b, d/a].
C1_Witness ==
    /\ pc = "overrides"
    /\ n_done = 1
    /\ Rec.file_rel_path = <<100, 46, 97>>
    /\ Rec.override_position = Some(0)
    /\ rel_song_paths = << <<100, 46, 97>>, <<98>>, <<100, 47, 97>> >>

\* C2: the returned group's songs are a permutation of the scanned relative
\* paths: as many songs as scanned files, every scanned relative path exactly
\* once, no two songs with the same relative path.
C2_SongsArePermutationOfScan ==
    pc = "done" =>
        /\ Len(song_files) = Len(non_rel_song_paths)
        /\ \A i \in 1..Len(RelInputs) :
              Cardinality({j \in 1..Len(song_files) : song_files[j].file = RelInputs[i]}) = 1
        /\ \A j, k \in 1..Len(song_files) :
              j # k => ~PathEq(song_files[j].file, song_files[k].file)

\* Witness of C2: a group of three songs returned after two reorderings that
\* left the songs in another order than the sorted one.
C2_Witness ==
    /\ pc = "done"
    /\ Len(song_files) = 3
    /\ n_done = 2
    /\ Files(song_files) # SortPaths(RelInputs)

\* Lexicographic comparison of two relative paths segment by segment, each
\* segment compared byte-wise.
RECURSIVE SegsCmp(_, _)
SegsCmp(a, b) ==
    IF a = <<>> /\ b = <<>> THEN 0
    ELSE IF a = <<>> THEN -1
    ELSE IF b = <<>> THEN 1
    ELSE IF BytesCmp(Head(a), Head(b)) # 0 THEN BytesCmp(Head(a), Head(b))
    ELSE SegsCmp(Tail(a), Tail(b))

NonEmptySegs(raw) == SelectSeq(SplitSegs(raw, <<>>), LAMBDA g : g # <<>>)

ComponentwiseLess(p, q) == SegsCmp(NonEmptySegs(p), NonEmptySegs(q)) < 0

\* C3: when no override record carries an override_position, the returned
\* songs are in ascending order of their relative paths, compared component
\* by component, each component byte-wise.
C3_DefaultOrderAscendingByComponents ==
    (pc = "done" /\ ~positioned) =>
        \A i, j \in 1..Len(song_files) :
            i < j => ComponentwiseLess(song_files[i].file, song_files[j].file)

\* Witness of C3: three songs returned, after records that set no position;
\* "d/a" precedes "d.a" although as whole byte strings "d.a" is the smaller.
C3_Witness ==
    /\ pc = "done"
    /\ n_done = 2
    /\ ~positioned
    /\ Files(song_files) = << <<98>>, <<100, 47, 97>>, <<100, 46, 97>> >>
    /\ BytesCmp(<<100, 46, 97>>, <<100, 47, 97>>) < 0

\* The fields of a song's metadata override, None when there is no override.
TitleOf(om) == IF IsSome(om) THEN Unwrap(om).song_title ELSE None
ArtistsOf(om) == IF IsSome(om) THEN Unwrap(om).song_artists ELSE None

\* C4: merging a record into the song it names never clears or replaces a
\* value of a field the record leaves unset (origin id, song_title and
\* song_artists taken one by one).
C4_MergeIsFieldByField ==
    [][ (ConsumesRecord /\ pc' = "overrides")
        => LET before == MapGet(mapping, Rec1.file_rel_path)
               after == MapGet(mapping', Rec1.file_rel_path)
           IN  /\ ~IsSome(Rec1.origin_mbid) => after.origin_mbid = before.origin_mbid
               /\ ~IsSome(TitleOf(Rec1.override_metadata))
                     => TitleOf(after.override_metadata) = TitleOf(before.override_metadata)
               /\ ~IsSome(ArtistsOf(Rec1.override_metadata))
                     => ArtistsOf(after.override_metadata) = ArtistsOf(before.override_metadata)
      ]_vars

\* The order the override list gives by removing and re-inserting, record by
\* record, each on the order the earlier records left.
Relocated(order, r) ==
    IF IsSome(r.override_position)
    THEN RemoveInsert(order, r.file_rel_path, Unwrap(r.override_position))
    ELSE order

RECURSIVE FoldRelocated(_, _)
FoldRelocated(order, list) ==
    IF list = <<>> THEN order
    ELSE FoldRelocated(Relocated(order, Head(list)), Tail(list))

\* C5: the records are applied in declaration order, each on the sequence as
\* the earlier ones left it: the order is the left-to-right fold of the
\* single-record relocation over the records consumed.
C5_OrderIsFoldOverRecords ==
    pc \in {"overrides", "done"} =>
        /\ rel_song_paths = FoldRelocated(SortPaths(RelInputs), songs_log)
        /\ pc = "done" => Files(song_files) = rel_song_paths

\* Witness of C5: a group returned for two records that, declared in the
\* other order, give a group with another song order.
C5_Witness ==
    /\ pc = "done"
    /\ Len(songs_log) = 2
    /\ LET swapped == New(GroupRoot, <<songs_log[2], songs_log[1]>>, non_rel_song_paths)
       IN  /\ swapped.kind = "Group"
           /\ Files(swapped.song_files) # Files(song_files)

\* C6: an override record naming a path that is not among the scanned songs
\* makes the assembly fail with a typed ReferenceError, not a panic and not a
\* group.
C6_MissingTargetIsReferenceError ==
    ( /\ IsSome(s)
      /\ \A i \in 1..Len(RelInputs) : ~PathEq(RelInputs[i], Rec.file_rel_path) )
    => Outcome = "Err(ReferenceError)"

HasDuplicateRelPaths ==
    \E i, j \in 1..Len(RelInputs) : i # j /\ PathEq(RelInputs[i], RelInputs[j])

\* C7: two scanned paths with the same relative path make the assembly fail
\* with a typed ReferenceError, before any override record is applied.
C7_DuplicateIsReferenceError ==
    (AllUnderRoot /\ HasDuplicateRelPaths /\ Outcome # "Running")
    => (Outcome = "Err(ReferenceError)" /\ n_done = 0)

\* C8: a scanned path that is not under the group root makes the assembly
\* fail with ScanError.
C8_NotUnderRootIsScanError ==
    (~AllUnderRoot /\ Outcome # "Running") => Outcome = "Err(ScanError)"

(***************************************************************************)
(* Vocabulary of the scanner's properties.                                 *)
(***************************************************************************)
Ancestors(d) ==
    IF d = DirXS THEN {DirM, DirX}
    ELSE IF d = DirX \/ d = DirY THEN {DirM}
    ELSE {}

Descendants(d) == {e \in Dirs : d \in Ancestors(e)}

LibEnded == lib_pc \in {"ok", "err", "panic"}

\* d holds a group file that the walk reaches: no directory above it holds
\* one, and the walk can read d and the directories above it.
DiscoveredGroup(d) ==
    /\ tree.gf[d].state # "none"
    /\ \A a \in Ancestors(d) \cup {d} : a \notin tree.unreadable
    /\ \A a \in Ancestors(d) : tree.gf[a].state = "none"

\* The files of d's subtree that d's group selects, in some read_dir order.
SelectedBelow(d) ==
    LET all == UNION {FilePaths(e) \cup (IF e # d /\ tree.gf[e].state # "none"
                                         THEN {GroupFilePath(e)} ELSE {})
                      : e \in Descendants(d) \cup {d}}
        sel == {f \in all : IsSelected(f, ScanExts(tree.gf[d]))}
    IN  CHOOSE q \in Perms(sel) : TRUE

\* A discovered group with no failure of its own: its group file parses,
\* every directory below it can be read, and its assembly returns a group.
HealthyGroup(d) ==
    /\ DiscoveredGroup(d)
    /\ tree.gf[d].state = "ok"
    /\ \A e \in Descendants(d) : e \notin tree.unreadable
    /\ New(GroupFilePath(d), tree.gf[d].songs, SelectedBelow(d)).kind = "Group"

ReportedAsSuccess(d) ==
    lib_pc = "ok" /\ \E i \in 1..Len(built) : built[i].path = GroupFilePath(d)

\* C9: a failure local to one group never keeps a sibling group from being
\* produced: when scan_library ends, every discovered group that has no
\* failure of its own is reported as a success.
C9_GroupFailuresStayLocal ==
    LibEnded => \A d \in Dirs : HealthyGroup(d) => ReportedAsSuccess(d)

\* scan_group is about to hand group g_idx's files to the assembler.
AboutToAssemble ==
    \/ lib_pc = "build" /\ g_phase = "walk" /\ g_stack = <<>>
    \/ lib_pc = "ggroup" /\ g_stack = <<>>

\* C10: every music-file path handed to the assembler lies under the root
\* path handed over for the same group, so strip_prefix succeeds on it.
C10_ScannedFilesUnderGroupRoot ==
    AboutToAssemble =>
        \A i \in 1..Len(g_music) : StripPrefix(g_music[i], groups[g_idx].path).ok

(***************************************************************************)
(* Vocabulary of the metadata reader's properties.                         *)
(***************************************************************************)
\* The kind of tag the reader of a format can read.
TagKindOf(fmt) ==
    IF fmt = "ID3" THEN "id3" ELSE IF fmt = "M4A" THEN "m4a" ELSE IF fmt = "FLAC" THEN "flac"
    ELSE "none"

TagsUnreadable == FormatOf(md_path) # "None" /\ md_file.kind # TagKindOf(FormatOf(md_path))

AllAbsent(res) ==
    /\ res.kind = "Ok"
    /\ res.md.name = None /\ res.md.album = None
    /\ res.md.album_artists = <<>> /\ res.md.artist = <<>>
    /\ res.md.num_discs = None /\ res.md.disc_idx = None
    /\ res.md.num_tracks = None /\ res.md.track_idx = None

\* C11: parse_from_file never returns an error; for an unsupported extension
\* and for a supported format whose tags cannot be read it returns the
\* all-absent record.
C11_ParseNeverReturnsError ==
    md_pc = "returned" =>
        /\ md_result.kind = "Ok"
        /\ (FormatOf(md_path) = "None" \/ TagsUnreadable) => AllAbsent(md_result)

(***************************************************************************)
(* Vocabulary of the file selection.                                       *)
(***************************************************************************)
\* The directory whose group file is the group g_idx.
GroupDir == CHOOSE d \in Dirs : GroupFilePath(d) = groups[g_idx].path

\* The regular files below the group's directory, the group's own group file
\* left aside; the group files of the directories further down are among them.
CandidateFiles ==
    UNION {FilePaths(e) \cup (IF e # GroupDir /\ tree.gf[e].state # "none"
                              THEN {GroupFilePath(e)} ELSE {})
           : e \in Descendants(GroupDir) \cup {GroupDir}}

\* "mp3", "ogg", "flac", "wav", "aiff", "m4a"
DefaultExtensionSet ==
    {<<109, 112, 51>>, <<111, 103, 103>>, <<102, 108, 97, 99>>, <<119, 97, 118>>,
     <<97, 105, 102, 102>>, <<109, 52, 97>>}

GroupExtensionSet ==
    LET f == tree.gf[GroupDir].scan_filter
    IN  IF IsSome(f) THEN {Unwrap(f)[i] : i \in 1..Len(Unwrap(f))} ELSE DefaultExtensionSet

\* What follows the last '.' of the path's last segment, when that '.' is
\* not the segment's first byte.
HasExtensionIn(f, exts) ==
    LET segs == NonEmptySegs(f)
        name == segs[Len(segs)]
    IN  \E i \in 2..Len(name) :
            /\ name[i] = 46
            /\ \A j \in (i + 1)..Len(name) : name[j] # 46
            /\ SubSeq(name, i + 1, Len(name)) \in exts

\* C12: in scan_group a regular file of the group's subtree is selected iff
\* its extension is in the group's extension set: the six default extensions
\* when the group file has no scan_filter, exactly the ext_filters when it
\* has one; a file without an extension is never selected.
C12_SelectedIffExtensionInSet ==
    AboutToAssemble =>
        \A f \in CandidateFiles :
            (\E i \in 1..Len(g_music) : g_music[i] = f)
                <=> HasExtensionIn(f, GroupExtensionSet)

\* scan_group has walked the subtree of "/m/x", whose group file keeps "txt"
\* only, with "t.mp3", "n.txt" and ".mp3" in it, and has selected "n.txt".
C12_Witness ==
    /\ AboutToAssemble
    /\ GroupDir = DirX
    /\ IsSome(tree.gf[DirX].scan_filter)
    /\ tree.files[DirX] = {NameTMp3, NameNTxt, NameDotMp3}
    /\ g_music = <<JoinPath(DirX, NameNTxt)>>

(***************************************************************************)
(* Vocabulary of the independence from the scan order.                     *)
(***************************************************************************)
\* The orders in which the scanner may hand over the paths of q.
Reorderings(q) == {[i \in 1..Len(q) |-> q[p[i]]] : p \in Perms(1..Len(q))}

\* C13: the outcome of CompilationInputGroup::new does not depend on the
\* order in which the files were scanned: with the same root and the same
\* override list, every reordering of the scanned paths gives the same song
\* sequence, with the same override data per song.
C13_GroupIndependentOfScanOrder ==
    pc = "done" =>
        \A q \in Reorderings(non_rel_song_paths) :
            LET other == New(GroupRoot, songs_log, q)
            IN  other.kind = "Group" /\ other.song_files = song_files

\* A group was returned for three files scanned in an order that is not the
\* order of the result, with an override that placed a song.
C13_Witness ==
    /\ pc = "done"
    /\ Len(non_rel_song_paths) = 3
    /\ positioned
    /\ \E i \in 1..2 : PathCmp(non_rel_song_paths[i], non_rel_song_paths[i + 1]) > 0
    /\ Cardinality(Reorderings(non_rel_song_paths)) = 6

\* C14: a record whose override_position is at or past the number of scanned
\* songs is neither clamped to the last index nor ignored: the step that
\* consumes it ends CompilationInputGroup::new in a panic, wherever the song
\* currently stands, and no group is produced.
C14_PositionPastEndAborts ==
    [][ ( /\ ConsumesRecord
          /\ IsSome(Rec1.override_position)
          /\ Unwrap(Rec1.override_position) >= Len(rel_song_paths) )
        => /\ pc' = "panic"
           /\ song_files' = <<>>
      ]_vars

\* Two songs scanned; the record names the song at the last index and asks
\* for index 2: the slice [1..=2] is out of range.
C14_Witness ==
    /\ pc = "panic"
    /\ IsSome(s)
    /\ Len(rel_song_paths) = 2
    /\ Rec.override_position = Some(2)
    /\ OsStrEq(rel_song_paths[2], Rec.file_rel_path)
    /\ panic_msg = "range end index out of range for slice"

(***************************************************************************)
(* Vocabulary of the ownership of files by groups.                         *)
(***************************************************************************)
\* The directory whose group file is the i-th group found.
DirOfGroup(i) == CHOOSE d \in Dirs : GroupFilePath(d) = groups[i].path

\* d and the directories above it.
SelfAndAbove(d) == Ancestors(d) \cup {d}

Collected(f) == \E i \in 1..Len(g_music) : g_music[i] = f

\* Every directory the walk reaches has been read: scanner.rs's walk is over,
\* or either scan_library has returned Ok.
WalkComplete == lib_pc \in {"build", "ok"}

\* C15: every file belongs to at most one group.  The groups found are the
\* directories that hold a group file and have none above them, so no group
\* lies below another (a nested group file creates no group); the files that
\* scan_group collects for a group are the selected files of the whole
\* subtree of its directory, none of them lies below another group, and a
\* file with no group file in its directory or above is collected by none.
C15_FilesBelongToAtMostOneGroup ==
    /\ \A i \in 1..Len(groups) :
          /\ \E d \in Dirs : GroupFilePath(d) = groups[i].path
          /\ tree.gf[DirOfGroup(i)].state = "ok"
          /\ \A a \in Ancestors(DirOfGroup(i)) : tree.gf[a].state = "none"
          /\ \A j \in 1..Len(groups) : j # i => DirOfGroup(j) # DirOfGroup(i)
    /\ WalkComplete =>
          \A d \in Dirs :
             (tree.gf[d].state = "ok" /\ \A a \in Ancestors(d) : tree.gf[a].state = "none")
                => \E i \in 1..Len(groups) : DirOfGroup(i) = d
    /\ AboutToAssemble =>
          \A d \in Dirs : \A f \in FilePaths(d) :
             /\ Collected(f) <=>
                   (GroupDir \in SelfAndAbove(d) /\ HasExtensionIn(f, GroupExtensionSet))
             /\ Collected(f) =>
                   \A e \in Dirs :
                      (e # GroupDir /\ \E j \in 1..Len(groups) : DirOfGroup(j) = e)
                         => e \notin SelfAndAbove(d)
             /\ (\A a \in SelfAndAbove(d) : tree.gf[a].state = "none") => ~Collected(f)

\* "/m/x" and "/m/y" are groups, "/m/x/s" holds a group file of its own and
\* "t.mp3", "/m" holds "t.mp3" and no group file: scan_group has collected
\* "/m/x/s/t.mp3" for the group of "/m/x".
C15_Witness ==
    /\ AboutToAssemble
    /\ Len(groups) = 2
    /\ GroupDir = DirX
    /\ tree.gf[DirXS].state = "ok"
    /\ tree.gf[DirM].state = "none"
    /\ tree.files[DirM] = {NameTMp3}
    /\ Collected(JoinPath(DirXS, NameTMp3))

(***************************************************************************)
(* Vocabulary of the frame of an override.                                 *)
(***************************************************************************)
\* The record's path and the song's path are the same sequence of names.
SameSong(p, q) == NonEmptySegs(p) = NonEmptySegs(q)

NamedByALoggedRecord(file) ==
    \E k \in 1..Len(songs_log) : SameSong(songs_log[k].file_rel_path, file)

\* C16: applying an override record that names song P changes the origin id
\* and the metadata override of P only: the entry of every other song is
\* left as it was; and in the returned group a song that no record names has
\* no origin id and no metadata override.
C16_OverrideChangesNamedSongOnly ==
    [][ /\ ConsumesRecord =>
             \A e \in mapping : ~SameSong(e.key, Rec1.file_rel_path) => e \in mapping'
        /\ pc' = "done" =>
             \A i \in 1..Len(song_files') :
                ~NamedByALoggedRecord(song_files'[i].file)
                   => /\ song_files'[i].origin_mbid = None
                      /\ song_files'[i].override_metadata = None
      ]_vars

\* A group of three songs returned after two records, one song with an
\* origin id and a metadata override, another named by no record.
C16_Witness ==
    /\ pc = "done"
    /\ Len(song_files) = 3
    /\ Len(songs_log) = 2
    /\ \E i \in 1..3 : /\ IsSome(song_files[i].origin_mbid)
                       /\ IsSome(song_files[i].override_metadata)
    /\ \E i \in 1..3 : ~NamedByALoggedRecord(song_files[i].file)

RejectedByReposition ==
    /\ pc = "panic"
    /\ panic_msg = "override for a file that isn't in the compilation"

AcceptedByMerge == pc = "overrides" /\ IsSome(s)

\* C17: whether a record's file_rel_path matches a scanned song does not
\* depend on whether the record carries an override_position: a path the
\* repositioning lookup rejects is one the map lookup rejects, and a path the
\* map lookup accepted is one the repositioning lookup finds.
C17_LookupsAcceptTheSameSpellings ==
    /\ RejectedByReposition => ~MapContains(mapping, OverridePath(Rec))
    /\ AcceptedByMerge => IsSome(PositionOf(rel_song_paths, OverridePath(Rec)))

====
